---- MODULE Spec2Model ----
(***************************************************************************)
(* Model of anemoi-training's validation plot callbacks                   *)
(* (src/anemoi/training/diagnostics/callbacks/plotting.py).               *)
(*                                                                         *)
(* Spec      : one callback instance driven by the trainer's primary      *)
(*             thread, with the single-worker ParallelExecutor of         *)
(*             asynchronous mode.                                          *)
(* SpecGroup : PlotLoss.sort_and_color_by_parameter_group applied to      *)
(*             bounded parameter lists.                                    *)
(***************************************************************************)
EXTENDS Integers, Sequences, FiniteSets, TLC

VARIABLES
    config,        \* the read-only configuration the callback was built from
    mainPc,        \* position of the primary (training) thread
    hook,          \* the latest hook invocation and its arguments
    nHooks,        \* number of hook invocations so far
    executor,      \* self._executor: the ParallelExecutor (exists only in asynchronous mode)
    futures,       \* every future returned by executor.submit, in submission order
    rendered,      \* calls of a plotting function made since the latest hook was invoked
    figs,          \* figures handed to _output_figure since the latest hook was invoked
    cached,        \* self.post_processors / pre_processors / latlons / parameter_names assigned?
    raceSeen,      \* the primary thread ran _plot while the worker was running one
    logged,        \* LOGGER.exception("Critical error occurred in asynchronous plots.") called
    exitStatus,    \* status passed to sys.exit, or NoStatus
    raisedClass,   \* class of the exception that left the hook towards the training loop
    tornDown,      \* teardown has returned at least once
    parameter_names,   \* SpecGroup: PlotLoss.parameter_names
    parameter_groups,  \* SpecGroup: PlotLoss.parameter_groups
    grouping,          \* SpecGroup: cached value of sort_and_color_by_parameter_group
    loss,              \* SpecLoss: the WeightedMSELoss module (weights, ivar, ignore_nans)
    tensors,           \* SpecLoss: pred and target, and the NaN-free tensors they started as
    lossResult,        \* SpecLoss: the latest call of forward and what it returned
    rolloutRun,        \* SpecRollout: one run of LongRolloutPlots._plot
    transforms,        \* SpecCache: the live model's transforms and the callback's copies
    files              \* SpecPaths: the plot files written, by path

vars == <<config, mainPc, hook, nHooks, executor, futures, rendered, figs, cached,
          raceSeen, logged, exitStatus, raisedClass, tornDown,
          parameter_names, parameter_groups, grouping, loss, tensors, lossResult,
          rolloutRun, transforms, files>>

dispatchVars == <<config, mainPc, hook, nHooks, executor, futures, rendered, figs, cached,
                  raceSeen, logged, exitStatus, raisedClass, tornDown>>

groupVars == <<parameter_names, parameter_groups, grouping>>

lossVars == <<loss, tensors, lossResult>>

plotVars == <<rolloutRun, transforms, files>>

(* What no step of the callback changes. *)
fixed == <<config, parameter_names, parameter_groups, grouping, loss, tensors, lossResult,
           rolloutRun, transforms, files>>

---------------------------------------------------------------------------
(* Bounds of the model *)

MaxHooks == 2      \* hook invocations per behaviour
MaxBatch == 2      \* batch_idx ranges over 0..MaxBatch
MaxEpoch == 1      \* trainer.current_epoch ranges over 0..MaxEpoch and epoch_freq
MaxFreq == 2       \* plot frequency / long-rollout frequency range over 1..MaxFreq
MaxRollout == 2    \* pl_module.rollout and the long-rollout horizons range over 1..MaxRollout

(* Program constants *)

epoch_freq == 5    \* GraphEdgeTrainableFeaturesPlot.epoch_freq

---------------------------------------------------------------------------
(* Values *)

NoExc == "None"
NoStatus == -1
NoBatch == -1

Variants == {"LongRolloutPlots", "GraphNodeTrainableFeaturesPlot",
             "GraphEdgeTrainableFeaturesPlot", "PlotLoss", "PlotSample",
             "PlotAdditionalMetrics"}

Ranks == {0, 1}

(* Exception classes a render can raise.  ValueError stands for the classes  *)
(* derived from Exception whose constructor accepts one string;              *)
(* UnicodeDecodeError for those derived from Exception whose constructor     *)
(* rejects a single string argument (it needs five); KeyboardInterrupt for   *)
(* the classes derived from BaseException only.                              *)
RaisedClasses == {"ValueError", "UnicodeDecodeError", "KeyboardInterrupt"}

Outcomes == {NoExc} \cup RaisedClasses

IsException(E) == E \in {"ValueError", "UnicodeDecodeError", "TypeError",
                         "RuntimeError", "AttributeError"}

AcceptsOneString(E) == E # "UnicodeDecodeError"

NoHook == [name |-> "none", batch_idx |-> NoBatch, epoch |-> 0]

NoCache == [post_processors |-> FALSE, pre_processors |-> FALSE,
            latlons |-> FALSE, parameter_names |-> FALSE]

NewFigure == [saved |-> 0, wandb |-> 0, mlflow |-> 0, closed |-> 0]

---------------------------------------------------------------------------
(* Configurations *)

BaseConfigs ==
    [asynchronous : BOOLEAN, rank : Ranks, save_basedir : BOOLEAN,
     wandb : BOOLEAN, mlflow : BOOLEAN]

(* Fields a variant never reads are left at one value.  Every render runs  *)
(* over MaxRollout rollout steps: pl_module.rollout for the batch-end       *)
(* variants, the horizons 1..MaxRollout for LongRolloutPlots, and both the  *)
(* histogram and the spectrum parameters are configured.                    *)
VariantConfigs ==
    [variant : {"GraphNodeTrainableFeaturesPlot", "GraphEdgeTrainableFeaturesPlot"},
     plot_frequency : {1}, eval_frequency : {1}, rollout : {1},
     longrollout : {{1}}, parameters_histogram : {FALSE}, parameters_spectrum : {FALSE}]
    \cup
    [variant : {"PlotLoss", "PlotSample"},
     plot_frequency : 1..MaxFreq, eval_frequency : {1}, rollout : {MaxRollout},
     longrollout : {{1}}, parameters_histogram : {FALSE}, parameters_spectrum : {FALSE}]
    \cup
    [variant : {"PlotAdditionalMetrics"},
     plot_frequency : 1..MaxFreq, eval_frequency : {1}, rollout : {MaxRollout},
     longrollout : {{1}}, parameters_histogram : {TRUE}, parameters_spectrum : {TRUE}]
    \cup
    [variant : {"LongRolloutPlots"},
     plot_frequency : 1..MaxFreq, eval_frequency : 1..MaxFreq, rollout : {1},
     longrollout : {1..MaxRollout},
     parameters_histogram : {FALSE}, parameters_spectrum : {FALSE}]

Merge(a, b) == [k \in (DOMAIN a) \cup (DOMAIN b) |-> IF k \in DOMAIN a THEN a[k] ELSE b[k]]

Configs == {Merge(a, b) : a \in BaseConfigs, b \in VariantConfigs}

---------------------------------------------------------------------------
(* BasePlotCallback *)

RankZero == config.rank = 0

_output_figure_close_nested(fig) ==
    IF ~RankZero
    THEN fig
    ELSE IF config.save_basedir
         THEN [fig EXCEPT !.saved = @ + 1,
                          !.wandb = @ + (IF config.wandb THEN 1 ELSE 0),
                          !.mlflow = @ + (IF config.mlflow THEN 1 ELSE 0),
                          !.closed = @ + 1]
         ELSE fig

(* BasePlotCallback._output_figure, applied to one figure: the figure as    *)
(* the call leaves it.                                                       *)
_output_figure(fig) ==
    IF ~RankZero
    THEN fig
    ELSE LET out == IF config.save_basedir
                    THEN [fig EXCEPT !.saved = @ + 1,
                                     !.wandb = @ + (IF config.wandb THEN 1 ELSE 0),
                                     !.mlflow = @ + (IF config.mlflow THEN 1 ELSE 0)]
                    ELSE fig
         IN  [out EXCEPT !.closed = @ + 1]

(* Number of figures one render produces. *)
FigureCount ==
    CASE config.variant = "LongRolloutPlots" -> Cardinality(config.longrollout)
      [] config.variant \in {"PlotLoss", "PlotSample"} -> config.rollout
      [] config.variant = "PlotAdditionalMetrics" ->
            config.rollout * ((IF config.parameters_histogram THEN 1 ELSE 0)
                              + (IF config.parameters_spectrum THEN 1 ELSE 0))
      [] OTHER -> 1

(* The cached fields after a render of the variant. *)
CachedAfter ==
    CASE config.variant \in {"LongRolloutPlots", "PlotSample"} ->
            [cached EXCEPT !.post_processors = TRUE, !.latlons = TRUE]
      [] config.variant = "PlotAdditionalMetrics" ->
            [cached EXCEPT !.pre_processors = TRUE, !.post_processors = TRUE,
                           !.latlons = TRUE]
      [] config.variant = "PlotLoss" -> [cached EXCEPT !.parameter_names = TRUE]
      [] OTHER -> cached

(* Whether a call of the variant's _plot runs its body: every _plot but     *)
(* GraphEdgeTrainableFeaturesPlot._plot is decorated with rank_zero_only.   *)
PlotRuns == config.variant = "GraphEdgeTrainableFeaturesPlot" \/ RankZero

(* The variant's _plot with the plotting function ending as `out` (NoExc,   *)
(* or the class it raises): the plotting calls made, the figures handed to  *)
(* _output_figure, the cached fields and the class raised.                  *)
_plot(out) ==
    IF ~PlotRuns
    THEN [calls |-> 0, figs |-> <<>>, cached |-> cached, raised |-> NoExc]
    ELSE [calls |-> 1,
          figs |-> IF out = NoExc
                   THEN [i \in 1..FigureCount |-> _output_figure(NewFigure)]
                   ELSE <<>>,
          cached |-> CachedAfter,
          raised |-> out]

(* ParallelExecutor._function_wrapper: the class of the exception the       *)
(* future holds when fn raised E.  A class not derived from Exception       *)
(* passes the wrapper and is stored by the executor as it is.               *)
_function_wrapper(E) ==
    IF E = NoExc THEN NoExc
    ELSE IF ~IsException(E) THEN E
    ELSE IF AcceptsOneString(E) THEN E
    ELSE "TypeError"

NewFuture == [state |-> "pending", raised |-> NoExc, exc |-> NoExc, outcome |-> "no"]

Unfinished(f) == f.state \in {"pending", "running"}

---------------------------------------------------------------------------
(* Initial state: BasePlotCallback.__init__ *)

NoGrouping == [computed |-> FALSE]

NoLoss == [built |-> FALSE]

NoCall == [called |-> FALSE]

NoRun == [pc |-> "none"]

NoTransforms == [live |-> 0]

NoFiles == {}

InitDispatch ==
    /\ config \in Configs
    /\ mainPc = "idle"
    /\ hook = NoHook
    /\ nHooks = 0
    /\ executor = [exists |-> config.asynchronous, shutdown |-> FALSE,
                   queue |-> <<>>, worker |-> "none"]
    /\ futures = <<>>
    /\ rendered = 0
    /\ figs = <<>>
    /\ cached = NoCache
    /\ raceSeen = FALSE
    /\ logged = FALSE
    /\ exitStatus = NoStatus
    /\ raisedClass = NoExc
    /\ tornDown = FALSE

Init ==
    /\ InitDispatch
    /\ parameter_names = <<>>
    /\ parameter_groups = <<>>
    /\ grouping = NoGrouping
    /\ loss = NoLoss
    /\ tensors = NoLoss
    /\ lossResult = NoCall
    /\ rolloutRun = NoRun
    /\ transforms = NoTransforms
    /\ files = NoFiles

---------------------------------------------------------------------------
(* Steps of the primary thread *)

(* The trainer invokes a hook: only between hooks, while the process lives. *)
Enter(name, b, e) ==
    /\ mainPc = "idle"
    /\ nHooks < MaxHooks
    /\ nHooks' = nHooks + 1
    /\ hook' = [name |-> name, batch_idx |-> b, epoch |-> e]

(* The hook returns without plotting. *)
Skip ==
    /\ rendered' = 0
    /\ figs' = <<>>
    /\ UNCHANGED <<mainPc, executor, futures, cached, raceSeen, logged, exitStatus,
                   raisedClass, tornDown>>

(* self._plot(...) called by the thread running the hook. *)
InlinePlot(out) ==
    LET r == _plot(out) IN
    /\ rendered' = r.calls
    /\ figs' = r.figs
    /\ cached' = r.cached
    /\ raceSeen' = (raceSeen \/ (r.calls > 0 /\ executor.worker = "running"))
    /\ IF r.raised # NoExc
       THEN mainPc' = "raised" /\ raisedClass' = r.raised
       ELSE UNCHANGED <<mainPc, raisedClass>>
    /\ UNCHANGED <<executor, futures, logged, exitStatus, tornDown>>

(* BasePlotCallback._async_plot up to the call of future.result(); the      *)
(* thread goes on at `pcAfter`.  submit raises RuntimeError once the        *)
(* executor is shut down.                                                    *)
Submit(pcAfter) ==
    /\ rendered' = 0
    /\ figs' = <<>>
    /\ IF ~RankZero
       THEN UNCHANGED <<mainPc, executor, futures, raisedClass>>
       ELSE IF executor.shutdown
       THEN /\ mainPc' = "raised"
            /\ raisedClass' = "RuntimeError"
            /\ UNCHANGED <<executor, futures>>
       ELSE /\ futures' = Append(futures, NewFuture)
            /\ executor' = [executor EXCEPT
                               !.queue = Append(@, Len(futures) + 1),
                               !.worker = IF @ = "none" THEN "idle" ELSE @]
            /\ mainPc' = pcAfter
            /\ UNCHANGED raisedClass
    /\ UNCHANGED <<cached, raceSeen, logged, exitStatus, tornDown>>

_async_plot_nowait == Submit("idle")

_async_plot == Submit("result")

(* self.plot: bound in __init__ to _async_plot or to _plot. *)
plot(out) == IF config.asynchronous THEN _async_plot ELSE InlinePlot(out)

ResultOutcome_swallow(exc) ==
    IF exc = NoExc \/ IsException(exc) THEN "returned" ELSE "propagated"

(* What future.result() does with the class the future holds. *)
ResultOutcome(exc) ==
    IF exc = NoExc THEN "returned"
    ELSE IF IsException(exc) THEN "exit"
    ELSE "propagated"

(* BasePlotCallback._async_plot from future.result() on. *)
_async_plot_result ==
    /\ mainPc = "result"
    /\ ~Unfinished(futures[Len(futures)])
    /\ LET f == futures[Len(futures)]
           o == ResultOutcome(f.exc)
       IN  /\ futures' = [futures EXCEPT ![Len(futures)].outcome = o]
           /\ mainPc' = CASE o = "returned" -> "idle"
                          [] o = "exit" -> "exited"
                          [] OTHER -> "raised"
           /\ logged' = (logged \/ IsException(f.exc))
           /\ exitStatus' = IF o = "exit" THEN 1 ELSE exitStatus
           /\ raisedClass' = IF o = "propagated" THEN f.exc ELSE raisedClass
    /\ UNCHANGED <<fixed, hook, nHooks, executor, rendered, figs, cached, raceSeen,
                   tornDown>>


(* BasePlotCallback.teardown: executor.shutdown(wait=True) sets the         *)
(* shutdown flag and joins the worker thread.                                *)
teardown_noguard ==
    /\ Enter("teardown", NoBatch, 0)
    /\ IF executor.exists
       THEN /\ executor' = [executor EXCEPT !.shutdown = TRUE]
            /\ mainPc' = "join"
            /\ UNCHANGED <<tornDown, raisedClass>>
       ELSE /\ mainPc' = "raised"
            /\ raisedClass' = "AttributeError"
            /\ UNCHANGED <<executor, tornDown>>
    /\ rendered' = 0
    /\ figs' = <<>>
    /\ UNCHANGED <<fixed, futures, cached, raceSeen, logged, exitStatus>>

teardown ==
    /\ Enter("teardown", NoBatch, 0)
    /\ IF executor.exists
       THEN /\ executor' = [executor EXCEPT !.shutdown = TRUE]
            /\ mainPc' = "join"
            /\ UNCHANGED tornDown
       ELSE /\ tornDown' = TRUE
            /\ UNCHANGED <<executor, mainPc>>
    /\ rendered' = 0
    /\ figs' = <<>>
    /\ UNCHANGED <<fixed, futures, cached, raceSeen, logged, exitStatus, raisedClass>>

(* The join of shutdown(wait=True) ends when no worker thread is alive. *)
teardown_return ==
    /\ mainPc = "join"
    /\ executor.worker \in {"none", "exited"}
    /\ mainPc' = "idle"
    /\ tornDown' = TRUE
    /\ UNCHANGED <<fixed, hook, nHooks, executor, futures, rendered, figs, cached,
                   raceSeen, logged, exitStatus, raisedClass>>

---------------------------------------------------------------------------
(* Steps of the executor's worker thread (max_workers = 1) *)

(* The worker takes the oldest work item and marks its future running. *)
worker_start ==
    /\ executor.worker = "idle"
    /\ executor.queue # <<>>
    /\ futures' = [futures EXCEPT ![Head(executor.queue)].state = "running"]
    /\ executor' = [executor EXCEPT !.queue = Tail(@), !.worker = "running"]
    /\ UNCHANGED <<fixed, mainPc, hook, nHooks, rendered, figs, cached, raceSeen,
                   logged, exitStatus, raisedClass, tornDown>>

Running == CHOOSE i \in 1..Len(futures) : futures[i].state = "running"

(* The work item ends: _function_wrapper(self._plot, ...) returned or raised. *)
worker_finish(out) ==
    /\ executor.worker = "running"
    /\ LET r == _plot(out)
           exc == _function_wrapper(r.raised)
       IN  /\ futures' = [futures EXCEPT
                             ![Running].state = IF exc = NoExc THEN "finished" ELSE "failed",
                             ![Running].raised = r.raised,
                             ![Running].exc = exc]
           /\ rendered' = rendered + r.calls
           /\ figs' = figs \o r.figs
           /\ cached' = r.cached
    /\ executor' = [executor EXCEPT !.worker = "idle"]
    /\ UNCHANGED <<fixed, mainPc, hook, nHooks, raceSeen, logged, exitStatus,
                   raisedClass, tornDown>>

(* After shutdown the worker leaves once the queue is drained. *)
worker_exit ==
    /\ executor.worker = "idle"
    /\ executor.shutdown
    /\ executor.queue = <<>>
    /\ executor' = [executor EXCEPT !.worker = "exited"]
    /\ UNCHANGED <<fixed, mainPc, hook, nHooks, futures, rendered, figs, cached,
                   raceSeen, logged, exitStatus, raisedClass, tornDown>>

---------------------------------------------------------------------------
(* The validation hooks of the callback variants *)

LongRolloutPlots_on_validation_batch_end_noeval(b, e, out) ==
    /\ config.variant = "LongRolloutPlots"
    /\ Enter("on_validation_batch_end", b, e)
    /\ IF RankZero /\ b % config.plot_frequency = 0
       THEN InlinePlot(out)
       ELSE Skip
    /\ UNCHANGED fixed

LongRolloutPlots_on_validation_batch_end(b, e, out) ==
    /\ config.variant = "LongRolloutPlots"
    /\ Enter("on_validation_batch_end", b, e)
    /\ IF RankZero /\ b % config.plot_frequency = 0
          /\ (e + 1) % config.eval_frequency = 0
       THEN InlinePlot(out)
       ELSE Skip
    /\ UNCHANGED fixed

GraphNodeTrainableFeaturesPlot_on_validation_epoch_start(e, out) ==
    /\ config.variant = "GraphNodeTrainableFeaturesPlot"
    /\ Enter("on_validation_epoch_start", NoBatch, e)
    /\ IF RankZero THEN plot(out) ELSE Skip
    /\ UNCHANGED fixed

GraphEdge_on_validation_epoch_end_norank(e, out) ==
    /\ config.variant = "GraphEdgeTrainableFeaturesPlot"
    /\ Enter("on_validation_epoch_end", NoBatch, e)
    /\ IF e % epoch_freq = 0 THEN InlinePlot(out) ELSE Skip
    /\ UNCHANGED fixed

GraphEdgeTrainableFeaturesPlot_on_validation_epoch_end(e, out) ==
    /\ config.variant = "GraphEdgeTrainableFeaturesPlot"
    /\ Enter("on_validation_epoch_end", NoBatch, e)
    /\ IF e % epoch_freq = 0 /\ config.rank = 0 THEN InlinePlot(out) ELSE Skip
    /\ UNCHANGED fixed

PlotLoss_on_validation_batch_end(b, e, out) ==
    /\ config.variant = "PlotLoss"
    /\ Enter("on_validation_batch_end", b, e)
    /\ IF b % config.plot_frequency = 0 THEN plot(out) ELSE Skip
    /\ UNCHANGED fixed

PlotSample_on_validation_batch_end(b, e, out) ==
    /\ config.variant = "PlotSample"
    /\ Enter("on_validation_batch_end", b, e)
    /\ IF b % config.plot_frequency = 0 THEN plot(out) ELSE Skip
    /\ UNCHANGED fixed

PlotAdditionalMetrics_on_validation_batch_end(b, e, out) ==
    /\ config.variant = "PlotAdditionalMetrics"
    /\ Enter("on_validation_batch_end", b, e)
    /\ IF b % config.plot_frequency = 0 THEN plot(out) ELSE Skip
    /\ UNCHANGED fixed

---------------------------------------------------------------------------

Batches == 0..MaxBatch
Epochs == (0..MaxEpoch) \cup {epoch_freq}

Next ==
    \/ \E b \in Batches, e \in Epochs, out \in Outcomes :
          LongRolloutPlots_on_validation_batch_end(b, e, out)
    \/ \E e \in Epochs, out \in Outcomes :
          GraphNodeTrainableFeaturesPlot_on_validation_epoch_start(e, out)
    \/ \E e \in Epochs, out \in Outcomes :
          GraphEdgeTrainableFeaturesPlot_on_validation_epoch_end(e, out)
    \/ \E b \in Batches, e \in Epochs, out \in Outcomes :
          PlotLoss_on_validation_batch_end(b, e, out)
    \/ \E b \in Batches, e \in Epochs, out \in Outcomes :
          PlotSample_on_validation_batch_end(b, e, out)
    \/ \E b \in Batches, e \in Epochs, out \in Outcomes :
          PlotAdditionalMetrics_on_validation_batch_end(b, e, out)
    \/ _async_plot_result
    \/ teardown
    \/ teardown_return
    \/ worker_start
    \/ \E out \in Outcomes : worker_finish(out)
    \/ worker_exit

Spec == Init /\ [][Next]_vars

---------------------------------------------------------------------------
(* PlotLoss.sort_and_color_by_parameter_group                               *)
(*                                                                           *)
(* A string is the sequence of its characters; numpy orders strings by code *)
(* point, a proper prefix first.  Indices are 1-based here, 0-based in      *)
(* numpy.                                                                    *)

MaxParams == 17     \* longest parameter list

GroupThreshold == 15    \* "if len(self.parameter_names) <= 15"

(* The characters used, in code point order. *)
Alphabet == <<"1", "2", "3", "4", "9", "_", "a", "b", "c", "e", "f", "h", "o",
              "p", "q", "r", "s", "t", "u", "v", "w", "x", "z">>

CodePoint == [c \in {Alphabet[k] : k \in 1..Len(Alphabet)} |->
                 CHOOSE k \in 1..Len(Alphabet) : Alphabet[k] = c]

Code(c) == CodePoint[c]

(* A numpy array: the function as an explicit value. *)
Array(f) == CHOOSE g \in {f} : g = f

Min(S) == CHOOSE x \in S : \A y \in S : x <= y

StrLess(a, b) ==
    \E k \in 1..(Len(a) + 1) :
        /\ k <= Len(b)
        /\ \A j \in 1..(k - 1) : a[j] = b[j]
        /\ (k = Len(a) + 1 \/ Code(a[k]) < Code(b[k]))

Other == <<"o", "t", "h", "e", "r">>

(* name.split("_")[0] *)
automatically_determine_group(name) ==
    LET under == {k \in 1..Len(name) : name[k] = "_"}
    IN  IF under = {} THEN name ELSE SubSeq(name, 1, Min(under) - 1)

(* next((group_name for group_name, group_parameters in                     *)
(*       parameter_groups.items() if name in group_parameters), auto(name)) *)
DetermineGroup(groups, name) ==
    LET listing == {k \in 1..Len(groups) : name \in groups[k].parameters}
    IN  IF listing = {} THEN automatically_determine_group(name)
        ELSE groups[Min(listing)].name

Range(arr) == {arr[k] : k \in 1..Len(arr)}

(* np.unique(arr, return_inverse=True, return_counts=True) *)
Rank(S, x) == 1 + Cardinality({y \in S : StrLess(y, x)})

Unique(arr) ==
    LET S == Range(arr)
        rank == Array([x \in S |-> Rank(S, x)])
        values == Array([k \in 1..Cardinality(S) |-> CHOOSE x \in S : rank[x] = k])
    IN  [values |-> values,
         inverse |-> Array([i \in 1..Len(arr) |-> rank[arr[i]]]),
         counts |-> Array([k \in 1..Cardinality(S) |->
                             Cardinality({i \in 1..Len(arr) : arr[i] = values[k]})])]

(* np.argsort(keys, kind="stable") *)
ArgsortStable(keys) ==
    Array([k \in 1..Len(keys) |->
              CHOOSE i \in 1..Len(keys) :
                  Cardinality({j \in 1..Len(keys) :
                                  keys[j] < keys[i] \/ (keys[j] = keys[i] /\ j < i)}) = k - 1])

GroupNames(groups) == {groups[k].name : k \in 1..Len(groups)}

(* "join parameter groups that appear only once and are not given in        *)
(* config-file": the entry of unique_group_list for a group and its count.  *)
JoinSingle_countonly(groups, group, count) ==
    IF count > 1 THEN group ELSE Other

JoinSingle(groups, group, count) ==
    IF count > 1 \/ group \in GroupNames(groups) THEN group ELSE Other

(* The branch for more than GroupThreshold parameters: parameters_to_groups *)
(* and sort_by_parameter_group as they leave the else branch.               *)
GroupedBranch(names, groups) ==
    LET first == Array([i \in 1..Len(names) |-> DetermineGroup(groups, names[i])])
        u1 == Unique(first)
        joined == Array([k \in 1..Len(u1.values) |->
                            JoinSingle(groups, u1.values[k], u1.counts[k])])
        second == Array([i \in 1..Len(names) |-> joined[u1.inverse[i]]])
        u2 == Unique(second)
    IN  [parameters_to_groups |-> second,
         sort_by_parameter_group |-> ArgsortStable(u2.inverse)]

(* The branch for at most GroupThreshold parameters. *)
UngroupedBranch(names) ==
    [parameters_to_groups |-> names,
     sort_by_parameter_group |-> Array([i \in 1..Len(names) |-> i])]

cmap_tab10_only(n) == "tab10"

(* cmap = "tab10" if len(unique_group_list) <= 10 else "tab20" *)
cmap(n) == IF n <= 10 THEN "tab10" ELSE "tab20"

(* Number of colours of the listed colormap. *)
ColormapN(name) == IF name = "tab10" THEN 10 ELSE 20

Black == [cmap |-> "k", index |-> 0]

(* plt.get_cmap(name)(np.linspace(0, 1, n)): entry k (from 1) of linspace   *)
(* is (k - 1) / (n - 1), and a listed colormap of N colours maps x in [0, 1] *)
(* to its colour number int(x * N), x = 1 to the last one.                   *)
ColormapColors(name, n) ==
    [k \in 1..n |->
        [cmap |-> name,
         index |-> IF n = 1 THEN 0
                   ELSE Min({((k - 1) * ColormapN(name)) \div (n - 1), ColormapN(name) - 1})]]

(* "if all groups have count 1 use black color" *)
bar_color_per_group(group_counts) ==
    LET n == Len(group_counts) IN
    IF \A k \in 1..n : group_counts[k] = 1
    THEN [k \in 1..n |-> Black]
    ELSE ColormapColors(cmap(n), n)

(* The property up to the colour of each group. *)
sort_and_color_by_parameter_group(names, groups) ==
    LET b == IF Len(names) <= GroupThreshold
             THEN UngroupedBranch(names)
             ELSE GroupedBranch(names, groups)
        order == Array(b.sort_by_parameter_group)
        sorted_groups == Array([k \in 1..Len(names) |-> b.parameters_to_groups[order[k]]])
        u == Unique(sorted_groups)
    IN  [computed |-> TRUE,
         sort_by_parameter_group |-> order,
         sorted_parameter_names |-> [k \in 1..Len(names) |-> names[order[k]]],
         parameters_to_groups |-> sorted_groups,
         unique_group_list |-> u.values,
         group_inverse |-> u.inverse,
         bar_color_per_group |-> bar_color_per_group(u.counts)]

---------------------------------------------------------------------------
(* Parameter lists and group configurations for SpecGroup *)

N(a, b) == <<a, "_", b>>

(* Twelve parameters every list starts with, in model output order. *)
BaseNames == <<N("t", "1"), N("q", "1"), N("t", "2"), N("z", "1"), N("q", "2"),
               N("t", "3"), N("z", "2"), N("q", "3"), N("u", "1"), N("u", "2"),
               N("v", "1"), N("v", "2")>>

(* Further parameters, appended in any order. *)
MoreNames == {N("w", "1"), N("w", "2"), <<"s", "p">>, <<"t", "p">>, N("t", "4"),
              N("x", "1")}

(* config.diagnostics.plot.parameter_groups: None (made {}), or a dict      *)
(* given in its insertion order.                                             *)
GroupConfigs ==
    { <<>>,
      << [name |-> <<"s", "f", "c">>, parameters |-> {<<"s", "p">>, <<"t", "p">>}] >>,
      << [name |-> <<"w">>, parameters |-> {N("w", "9")}],
         [name |-> <<"s", "f", "c">>, parameters |-> {<<"s", "p">>}] >>,
      << [name |-> <<"a">>, parameters |-> {<<"s", "p">>, N("t", "1")}],
         [name |-> <<"b">>, parameters |-> {<<"s", "p">>, <<"t", "p">>}] >>,
      [k \in 1..Len(BaseNames) |-> [name |-> BaseNames[k], parameters |-> {BaseNames[k]}]] }

InitGroup ==
    /\ parameter_names = BaseNames
    /\ parameter_groups \in GroupConfigs
    /\ grouping = NoGrouping
    /\ loss = NoLoss
    /\ tensors = NoLoss
    /\ lossResult = NoCall
    /\ rolloutRun = NoRun
    /\ transforms = NoTransforms
    /\ files = NoFiles
    /\ config = CHOOSE c \in Configs : TRUE
    /\ mainPc = "idle"
    /\ hook = NoHook
    /\ nHooks = 0
    /\ executor = [exists |-> FALSE, shutdown |-> FALSE, queue |-> <<>>, worker |-> "none"]
    /\ futures = <<>>
    /\ rendered = 0
    /\ figs = <<>>
    /\ cached = NoCache
    /\ raceSeen = FALSE
    /\ logged = FALSE
    /\ exitStatus = NoStatus
    /\ raisedClass = NoExc
    /\ tornDown = FALSE

(* The model's output variables: one more name of name_to_index. *)
AddParameter(name) ==
    /\ ~grouping.computed
    /\ Len(parameter_names) < MaxParams
    /\ name \notin Range(parameter_names)
    /\ parameter_names' = Append(parameter_names, name)
    /\ UNCHANGED <<parameter_groups, grouping, dispatchVars, lossVars, plotVars>>

(* First access of the cached property. *)
AccessGrouping ==
    /\ ~grouping.computed
    /\ grouping' = sort_and_color_by_parameter_group(parameter_names, parameter_groups)
    /\ UNCHANGED <<parameter_names, parameter_groups, dispatchVars, lossVars, plotVars>>

NextGroup ==
    \/ \E name \in MoreNames : AddParameter(name)
    \/ AccessGrouping

SpecGroup == InitGroup /\ [][NextGroup]_vars

---------------------------------------------------------------------------
(* Properties of the plot dispatch, checked under Spec *)

Retrieved == {i \in 1..Len(futures) : futures[i].outcome # "no"}

\* C1 (as stated): an asynchronous plot invocation returns normally exactly
\* when the render it submitted completed without raising, and whenever the
\* render raised, the invocation logged the error and ended the process
\* with exit status 1.
C1_AsStated ==
    \A i \in Retrieved :
        /\ (futures[i].outcome = "returned") <=> (futures[i].raised = NoExc)
        /\ futures[i].raised # NoExc =>
              /\ futures[i].outcome = "exit"
              /\ mainPc = "exited"
              /\ logged
              /\ exitStatus = 1

\* C1 (amended): an asynchronous plot invocation returns normally exactly
\* when the render it submitted completed without raising; a render that
\* raised a class derived from Exception makes the invocation log the error
\* and end the process with exit status 1; a render that raised a class
\* derived from BaseException only makes future.result() raise that class
\* into the hook, unlogged and with no call of sys.exit.
C1_ExceptionExits ==
    \A i \in Retrieved :
        /\ (futures[i].outcome = "returned") <=> (futures[i].raised = NoExc)
        /\ (futures[i].raised # NoExc /\ IsException(futures[i].raised)) =>
              /\ futures[i].outcome = "exit"
              /\ mainPc = "exited"
              /\ logged
              /\ exitStatus = 1
        /\ (futures[i].raised # NoExc /\ ~IsException(futures[i].raised)) =>
              /\ futures[i].outcome = "propagated"
              /\ mainPc = "raised"
              /\ raisedClass = futures[i].raised
              /\ ~logged
              /\ exitStatus = NoStatus

C1_Witness ==
    \E i \in Retrieved :
        /\ futures[i].raised = "ValueError"
        /\ futures[i].outcome = "exit"
        /\ exitStatus = 1

\* C2: the future of a render that raised class E reports, at result
\* retrieval, an exception of that same class E.
C2_SameClass ==
    \A i \in 1..Len(futures) :
        futures[i].state = "failed" => futures[i].exc = futures[i].raised

\* C3: once teardown has returned, no task ever submitted to the executor is
\* pending or running; and a teardown in synchronous mode leaves the
\* callback as it was.
C3_TeardownDrains ==
    /\ [](tornDown =>
            /\ \A i \in 1..Len(futures) : ~Unfinished(futures[i])
            /\ executor.queue = <<>>
            /\ executor.worker # "running")
    /\ [][(hook'.name = "teardown" /\ nHooks' = nHooks + 1 /\ ~config.asynchronous) =>
            UNCHANGED <<mainPc, executor, futures, cached, logged, exitStatus,
                        raisedClass>>]_vars

C3_Witness ==
    /\ config.asynchronous
    /\ tornDown
    /\ mainPc = "idle"
    /\ Len(futures) >= 1
    /\ executor.worker = "exited"

\* C4: in asynchronous mode at most one task is running and at most one
\* submitted task is unfinished; a task is submitted only after the result
\* of every earlier one was retrieved; tasks start in submission order.
C4_QueueDepthOne ==
    config.asynchronous =>
        /\ Cardinality({i \in 1..Len(futures) : futures[i].state = "running"}) <= 1
        /\ Cardinality({i \in 1..Len(futures) : Unfinished(futures[i])}) <= 1
        /\ Len(executor.queue) <= 1
        /\ \A i \in 1..Len(futures) : i < Len(futures) => futures[i].outcome # "no"
        /\ \A i, j \in 1..Len(futures) :
              (i < j /\ futures[j].state # "pending") => futures[i].state # "pending"

C4_Witness ==
    /\ Len(futures) = 2
    /\ futures[1].outcome = "returned"
    /\ futures[2].state = "running"

\* C5: the primary thread never runs a render (the only code touching the
\* cached fields) while the worker runs one, and while the worker runs a
\* render the primary thread is blocked in future.result().
C5_NoRace ==
    /\ ~raceSeen
    /\ executor.worker = "running" => mainPc = "result"

C5_Witness ==
    /\ executor.worker = "running"
    /\ mainPc = "result"
    /\ cached # NoCache

\* C6: on a rank other than 0 no hook calls a plotting function, hands a
\* figure to _output_figure (so nothing is written or uploaded), submits a
\* task or starts the worker.
C6_RankGating ==
    config.rank # 0 =>
        /\ rendered = 0
        /\ figs = <<>>
        /\ futures = <<>>
        /\ executor.worker = "none"
        /\ cached = NoCache

C6_Witness ==
    /\ config.rank # 0
    /\ config.variant = "GraphEdgeTrainableFeaturesPlot"
    /\ hook.name = "on_validation_epoch_end"
    /\ hook.epoch % epoch_freq = 0

C8_IndependentSinks ==
    config.rank = 0 =>
        \A i \in 1..Len(figs) :
            /\ (figs[i].saved = 1) <=> config.save_basedir
            /\ (figs[i].wandb = 1) <=> config.wandb
            /\ (figs[i].mlflow = 1) <=> config.mlflow

BatchGate == hook.batch_idx # NoBatch /\ hook.batch_idx % config.plot_frequency = 0

\* C9 (as stated): every variant renders only for a hook invocation whose
\* batch index satisfies batch_idx % plot_frequency = 0, LongRolloutPlots
\* only if also (current_epoch + 1) % eval_frequency = 0.
C9_AsStated ==
    rendered > 0 =>
        /\ BatchGate
        /\ config.variant = "LongRolloutPlots" =>
              (hook.epoch + 1) % config.eval_frequency = 0

\* C9 (amended): PlotLoss, PlotSample, PlotAdditionalMetrics and
\* LongRolloutPlots render only for an on_validation_batch_end invocation
\* with batch_idx % plot_frequency = 0, LongRolloutPlots only if also
\* (current_epoch + 1) % eval_frequency = 0; the two graph variants have no
\* batch index and no plot_frequency gate: GraphNodeTrainableFeaturesPlot
\* renders only in on_validation_epoch_start, at any epoch, and
\* GraphEdgeTrainableFeaturesPlot only in on_validation_epoch_end with
\* current_epoch % 5 = 0.
C9_Gating ==
    rendered > 0 =>
        CASE config.variant = "GraphNodeTrainableFeaturesPlot" ->
                hook.name = "on_validation_epoch_start"
          [] config.variant = "GraphEdgeTrainableFeaturesPlot" ->
                hook.name = "on_validation_epoch_end" /\ hook.epoch % epoch_freq = 0
          [] config.variant = "LongRolloutPlots" ->
                /\ hook.name = "on_validation_batch_end"
                /\ BatchGate
                /\ (hook.epoch + 1) % config.eval_frequency = 0
          [] OTHER ->
                hook.name = "on_validation_batch_end" /\ BatchGate

C9_Witness ==
    /\ config.variant = "GraphNodeTrainableFeaturesPlot"
    /\ rendered > 0
    /\ hook.batch_idx = NoBatch
    /\ hook.epoch = 1

---------------------------------------------------------------------------
(* Properties of the parameter grouping, checked under SpecGroup *)

(* g is the part of name before its first underscore (all of it if none). *)
IsPrefixGroup(g, name) ==
    /\ Len(g) <= Len(name)
    /\ \A k \in 1..Len(g) : g[k] = name[k] /\ g[k] # "_"
    /\ (Len(g) = Len(name) \/ name[Len(g) + 1] = "_")

(* g is the group the claim first assigns name to. *)
IsAssignedGroup(g, name) ==
    IF \E k \in 1..Len(parameter_groups) : name \in parameter_groups[k].parameters
    THEN \E k \in 1..Len(parameter_groups) :
            /\ name \in parameter_groups[k].parameters
            /\ \A j \in 1..(k - 1) : name \notin parameter_groups[j].parameters
            /\ g = parameter_groups[k].name
    ELSE IsPrefixGroup(g, name)

IsPermutation(order, n) ==
    /\ Len(order) = n
    /\ \A i \in 1..n : \E k \in 1..n : order[k] = i

\* C10: with more than 15 parameters every parameter gets the (first)
\* configured group listing it, else the part of its name before the first
\* underscore, and then exactly the groups with one member whose name is not
\* a configured group name become "other"; with 15 or fewer parameters every
\* parameter is its own group under its full name and the order is kept.
C10_Grouping ==
    grouping.computed =>
        LET n == Len(parameter_names)
            order == grouping.sort_by_parameter_group
            result == grouping.parameters_to_groups
        IN  /\ IsPermutation(order, n)
            /\ Len(result) = n
            /\ IF n > 15
               THEN \A k \in 1..n :
                      \E g \in {SubSeq(parameter_names[order[k]], 1, j) :
                                   j \in 0..Len(parameter_names[order[k]])}
                               \cup GroupNames(parameter_groups) :
                        /\ IsAssignedGroup(g, parameter_names[order[k]])
                        /\ LET members == {i \in 1..n : IsAssignedGroup(g, parameter_names[i])}
                           IN  result[k] =
                                 IF Cardinality(members) = 1
                                    /\ g \notin GroupNames(parameter_groups)
                                 THEN Other
                                 ELSE g
               ELSE /\ order = [i \in 1..n |-> i]
                    /\ \A k \in 1..n : result[k] = parameter_names[k]

C10_Witness ==
    /\ grouping.computed
    /\ Len(parameter_names) > 15
    /\ \E k \in 1..Len(parameter_names) :
          /\ grouping.sorted_parameter_names[k] = N("w", "1")
          /\ grouping.parameters_to_groups[k] = Other
    /\ \E k \in 1..Len(parameter_names) :
          /\ grouping.sorted_parameter_names[k] = <<"s", "p">>
          /\ grouping.parameters_to_groups[k] = <<"s", "f", "c">>
          /\ <<"t", "p">> \notin Range(parameter_names)

---------------------------------------------------------------------------
(* WeightedMSELoss (src/anemoi/training/losses/mse.py)                      *)
(*                                                                           *)
(* A tensor is its shape and its entries by index; indices are 1-based      *)
(* here, 0-based in torch.  An entry is NaN or a finite number, kept as an  *)
(* exact fraction n/d in lowest terms.                                       *)

MaxNaN == 2     \* NaN entries put into pred and target before a call

NaN == [nan |-> TRUE, n |-> 0, d |-> 1]

Abs(i) == IF i < 0 THEN -i ELSE i

RECURSIVE GCD(_, _)
GCD(a, b) == IF b = 0 THEN a ELSE GCD(b, a % b)

(* The number n/d, d > 0. *)
Q(n, d) ==
    LET g == GCD(Abs(n), d)
    IN  [nan |-> FALSE, n |-> n \div g, d |-> d \div g]

Num(i) == Q(i, 1)

Add(x, y) == IF x.nan \/ y.nan THEN NaN ELSE Q(x.n * y.d + y.n * x.d, x.d * y.d)

Sub(x, y) == IF x.nan \/ y.nan THEN NaN ELSE Q(x.n * y.d - y.n * x.d, x.d * y.d)

Mul(x, y) == IF x.nan \/ y.nan THEN NaN ELSE Q(x.n * y.n, x.d * y.d)

(* x / y: 0/0 is NaN.  The divisors met here are sums of non-negative       *)
(* weights and counts, so a nonzero number is never divided by zero.         *)
Div(x, y) ==
    IF x.nan \/ y.nan \/ y.n = 0 THEN NaN
    ELSE Q(x.n * y.d * (IF y.n < 0 THEN -1 ELSE 1), x.d * Abs(y.n))

MaxDim(shape) ==
    IF shape = <<>> THEN 0
    ELSE CHOOSE m \in Range(shape) : \A k \in Range(shape) : k <= m

Indices(shape) ==
    {idx \in [1..Len(shape) -> 1..MaxDim(shape)] :
        \A k \in 1..Len(shape) : idx[k] <= shape[k]}

Tensor(shape, data) == [shape |-> shape, data |-> Array(data)]

Front(s) == SubSeq(s, 1, Len(s) - 1)

Last(s) == s[Len(s)]

RECURSIVE SumOver(_, _)
SumOver(S, entry) ==
    IF S = {} THEN Num(0)
    ELSE LET i == CHOOSE j \in S : TRUE
         IN  Add(entry[i], SumOver(S \ {i}, entry))

SumEntries_strict(ignore_nans, t, S) == SumOver(S, [i \in S |-> t.data[i]])

(* torch.sum / torch.nansum over the entries S of t. *)
SumEntries(ignore_nans, t, S) ==
    SumOver(S, [i \in S |-> IF ignore_nans /\ t.data[i].nan THEN Num(0) ELSE t.data[i]])

(* self.avg_function(out, dim=-1): torch.mean, or torch.nanmean, which      *)
(* divides the sum of the entries that are not NaN by their number.          *)
avg_function(ignore_nans, t) ==
    LET along(idx) == {i \in Indices(t.shape) : Front(i) = idx}
        present(idx) == {i \in along(idx) : ~t.data[i].nan}
    IN  Tensor(Front(t.shape),
               [idx \in Indices(Front(t.shape)) |->
                   IF ignore_nans
                   THEN Div(SumEntries(TRUE, t, along(idx)), Num(Cardinality(present(idx))))
                   ELSE Div(SumEntries(FALSE, t, along(idx)), Num(Cardinality(along(idx))))])

(* self.sum_function(t): torch.sum or torch.nansum over every axis. *)
sum_function(ignore_nans, t) ==
    Tensor(<<>>, [idx \in Indices(<<>>) |-> SumEntries(ignore_nans, t, Indices(t.shape))])

(* self.sum_function(t, axis=(0, 1, 2)): the first three axes are summed,   *)
(* whichever they are; the axes after them are kept.                         *)
sum_function_axis012(ignore_nans, t) ==
    LET rest == SubSeq(t.shape, 4, Len(t.shape))
    IN  Tensor(rest,
               [idx \in Indices(rest) |->
                   SumEntries(ignore_nans, t,
                              {i \in Indices(t.shape) : SubSeq(i, 4, Len(i)) = idx})])

(* self.weights.expand_as(out): the (N,) weights along the last axis. *)
expand_as(weights, shape) ==
    Tensor(shape, [idx \in Indices(shape) |-> Num(weights[Last(idx)])])

(* self.weights[..., None].expand_as(out): the (N, 1) weights, along the    *)
(* last axis but one.                                                        *)
expand_as_unsqueezed(weights, shape) ==
    Tensor(shape, [idx \in Indices(shape) |-> Num(weights[idx[Len(idx) - 1]])])

(* a * b and a / b with b broadcast from the trailing axes of a. *)
Trailing(idx, shape) == SubSeq(idx, Len(idx) - Len(shape) + 1, Len(idx))

TMul(a, b) ==
    Tensor(a.shape,
           [idx \in Indices(a.shape) |-> Mul(a.data[idx], b.data[Trailing(idx, b.shape)])])

TDiv(a, b) ==
    Tensor(a.shape,
           [idx \in Indices(a.shape) |-> Div(a.data[idx], b.data[Trailing(idx, b.shape)])])

(* torch.square(pred - target), times self.ivar when the buffer exists. *)
SquaredError(module, pred, target) ==
    Tensor(pred.shape,
           [idx \in Indices(pred.shape) |->
               LET e == Sub(pred.data[idx], target.data[idx])
                   sq == Mul(e, e)
               IN  IF module.has_ivar THEN Mul(sq, Num(module.ivar[Last(idx)])) ELSE sq])

(* WeightedMSELoss.forward *)
forward(module, pred, target, squash) ==
    LET out == SquaredError(module, pred, target)
    IN  IF squash
        THEN LET avg == avg_function(module.ignore_nans, out)
                 w == expand_as(module.weights, avg.shape)
                 weighted == TMul(avg, w)
                 normed == TDiv(weighted, sum_function(module.ignore_nans, w))
             IN  sum_function(module.ignore_nans, normed)
        ELSE LET w == expand_as_unsqueezed(module.weights, out.shape)
                 weighted == TMul(out, w)
                 normed == TDiv(weighted, sum_function_axis012(module.ignore_nans, w))
             IN  sum_function_axis012(module.ignore_nans, normed)

---------------------------------------------------------------------------
(* Modules and inputs for SpecLoss *)

(* (bs, lat*lon, n_outputs) as documented by forward, and                   *)
(* (bs, ensemble, lat*lon, n_outputs).                                       *)
Shapes == {<<1, 2, 3>>, <<2, 2, 2>>, <<2, 1, 2, 2>>}

NodeAxis(shape) == Len(shape) - 1

(* node_weights of shape (N,): non-negative, with a positive sum. *)
NodeWeights == {<<1, 1>>, <<0, 1>>, <<2, 0>>, <<1, 2>>}

(* Position of an index in row-major order, from 0. *)
RECURSIVE Flat(_, _)
Flat(idx, shape) ==
    IF idx = <<>> THEN 0
    ELSE Flat(Front(idx), Front(shape)) * Last(shape) + (Last(idx) - 1)

PredOf(shape) ==
    Tensor(shape, [idx \in Indices(shape) |->
                      Num((3 * Flat(idx, shape) + idx[NodeAxis(shape)]) % 5)])

TargetOf(shape) ==
    Tensor(shape, [idx \in Indices(shape) |-> Num(Last(idx) % 2)])

Modules(shape) ==
    [built : {TRUE}, weights : NodeWeights, has_ivar : BOOLEAN,
     ivar : {[v \in 1..Last(shape) |-> v]}, ignore_nans : BOOLEAN]

InitLoss ==
    /\ \E shape \in Shapes :
          /\ loss \in Modules(shape)
          /\ tensors = [built |-> TRUE, pred |-> PredOf(shape), target |-> TargetOf(shape),
                        clean_pred |-> PredOf(shape), clean_target |-> TargetOf(shape)]
    /\ lossResult = NoCall
    /\ rolloutRun = NoRun
    /\ transforms = NoTransforms
    /\ files = NoFiles
    /\ parameter_names = <<>>
    /\ parameter_groups = <<>>
    /\ grouping = NoGrouping
    /\ config = CHOOSE c \in Configs : TRUE
    /\ mainPc = "idle"
    /\ hook = NoHook
    /\ nHooks = 0
    /\ executor = [exists |-> FALSE, shutdown |-> FALSE, queue |-> <<>>, worker |-> "none"]
    /\ futures = <<>>
    /\ rendered = 0
    /\ figs = <<>>
    /\ cached = NoCache
    /\ raceSeen = FALSE
    /\ logged = FALSE
    /\ exitStatus = NoStatus
    /\ raisedClass = NoExc
    /\ tornDown = FALSE

NaNCount ==
    Cardinality({i \in Indices(tensors.pred.shape) : tensors.pred.data[i].nan})
    + Cardinality({i \in Indices(tensors.target.shape) : tensors.target.data[i].nan})

(* A missing observation: one entry of pred or of target becomes NaN.  NaN *)
(* inputs are given to a module built with ignore_nans ("Allow nans in the *)
(* loss").                                                                  *)
InsertNaN(which, idx) ==
    /\ ~lossResult.called
    /\ loss.ignore_nans
    /\ NaNCount < MaxNaN
    /\ idx \in Indices(tensors.pred.shape)
    /\ ~tensors[which].data[idx].nan
    /\ tensors' = [tensors EXCEPT ![which].data[idx] = NaN]
    /\ UNCHANGED <<loss, lossResult, dispatchVars, groupVars, plotVars>>

(* loss(pred, target, squash=squash) *)
call_forward(squash) ==
    /\ ~lossResult.called
    /\ lossResult' = [called |-> TRUE, squash |-> squash,
                      value |-> forward(loss, tensors.pred, tensors.target, squash)]
    /\ UNCHANGED <<loss, tensors, dispatchVars, groupVars, plotVars>>

AllIndices == UNION {Indices(shape) : shape \in Shapes}

NextLoss ==
    \/ \E which \in {"pred", "target"}, idx \in AllIndices : InsertNaN(which, idx)
    \/ \E squash \in BOOLEAN : call_forward(squash)

SpecLoss == InitLoss /\ [][NextLoss]_vars

---------------------------------------------------------------------------
(* Properties of WeightedMSELoss.forward, checked under SpecLoss *)

VariableCount == Last(tensors.pred.shape)

\* C11: with squash=True the value returned has no variable axis, and with
\* squash=False it keeps the variable axis: one loss value per output
\* variable.
C11_SquashShape ==
    lossResult.called =>
        IF lossResult.squash
        THEN lossResult.value.shape = <<>>
        ELSE lossResult.value.shape = <<VariableCount>>

(* The entries of the leading (batch, ensemble) axes and the node axis. *)
NodeEntries == Indices(Front(tensors.pred.shape))

WeightSum == SumOver(1..Len(loss.weights), [n \in 1..Len(loss.weights) |-> Num(loss.weights[n])])

(* sum(out * weights) / sum(weights) over the node axis for the squared     *)
(* error entry[i] at the entries i of NodeEntries, averaged over the        *)
(* leading axes.                                                             *)
NormalizedWeightedSum(entry) ==
    LET leading == Cardinality(NodeEntries) \div Len(loss.weights)
        weighted == [i \in NodeEntries |-> Mul(entry[i], Num(loss.weights[Last(i)]))]
    IN  Div(SumOver(NodeEntries, weighted), Mul(Num(leading), WeightSum))

\* C12: for both squash settings the value returned is the normalized
\* weighted sum sum(out * weights) / sum(weights) over the node axis, the
\* normalizer being the sum of the node weights, of the squared error (times
\* the variance buffer when present): averaged over the variable axis when
\* squash is true, one value per variable when it is false.
C12_NormalizedSum ==
    (lossResult.called /\ NaNCount = 0) =>
        LET out == SquaredError(loss, tensors.pred, tensors.target)
            avg == avg_function(FALSE, out)
            kept == [v \in Indices(<<VariableCount>>) |->
                        NormalizedWeightedSum([i \in NodeEntries |-> out.data[Append(i, v[1])]])]
        IN  IF lossResult.squash
            THEN lossResult.value.shape = <<>>
                 /\ lossResult.value.data[<<>>] = NormalizedWeightedSum(avg.data)
            ELSE lossResult.value = Tensor(<<VariableCount>>, kept)

(* Every NaN of pred and target lies at a node whose weight is zero. *)
NaNOnlyAtZeroWeight ==
    \A i \in Indices(tensors.pred.shape) :
        (tensors.pred.data[i].nan \/ tensors.target.data[i].nan) =>
            loss.weights[i[NodeAxis(tensors.pred.shape)]] = 0

\* C13: with ignore_nans enabled, NaN entries of pred or target at nodes of
\* weight zero only leave the value returned by forward equal to the value
\* for the NaN-free pred and target, for squash=True and squash=False.
C13_NaNAtZeroWeight ==
    (lossResult.called /\ loss.ignore_nans /\ NaNOnlyAtZeroWeight) =>
        lossResult.value =
            forward(loss, tensors.clean_pred, tensors.clean_target, lossResult.squash)

C13_Witness ==
    /\ lossResult.called
    /\ lossResult.squash
    /\ loss.ignore_nans
    /\ NaNOnlyAtZeroWeight
    /\ \E i \in NodeEntries :
          \A v \in 1..VariableCount : tensors.pred.data[Append(i, v)].nan
    /\ ~lossResult.value.data[<<>>].nan
    /\ lossResult.value.data[<<>>].n > 0

---------------------------------------------------------------------------
(* Further properties of the plot dispatch, checked under Spec *)

(* The tasks the worker thread has run to their end. *)
RanOnWorker == {i \in 1..Len(futures) : futures[i].state \in {"finished", "failed"}}

\* C14: the invocation mode is the asynchronous flag of the construction and
\* never changes, and it governs every render: with the flag set an executor
\* exists and every render made for a hook ran as a task of its worker
\* thread; with the flag unset no executor exists, nothing is ever submitted
\* and a render that raises leaves the hook with the class it raised.
C14_ModeGoverns ==
    /\ executor.exists = config.asynchronous
    /\ (config.asynchronous /\ rendered > 0) => RanOnWorker # {}
    /\ ~config.asynchronous =>
          /\ futures = <<>>
          /\ executor.worker = "none"
          /\ exitStatus = NoStatus
          /\ mainPc \in {"idle", "raised"}

\* C19: in asynchronous mode, once teardown has returned the callback runs
\* no render again: a hook invoked later makes no call of a plotting
\* function and leaves no task behind, and when it fails it fails with the
\* exception of the submission reaching its caller, never with a process
\* exit.
C19_NoRenderAfterTeardown ==
    (config.asynchronous /\ tornDown /\ hook.name # "teardown") =>
        /\ rendered = 0
        /\ \A i \in 1..Len(futures) : ~Unfinished(futures[i])
        /\ mainPc \in {"idle", "raised"}
        /\ mainPc = "raised" => raisedClass = "RuntimeError"
        /\ exitStatus = NoStatus

---------------------------------------------------------------------------
(* LongRolloutPlots._plot: the rollout loop                                  *)

MaxHorizon == 3     \* config.diagnostics.plot.longrollout.rollout is drawn from 1..MaxHorizon
MaxMultiStep == 2   \* pl_module.multi_step ranges over 1..MaxMultiStep
MaxTime == 5        \* batch.shape[1] ranges over 1..MaxTime

(* A callback that no hook has been invoked on, in synchronous mode. *)
Quiet ==
    /\ mainPc = "idle"
    /\ hook = NoHook
    /\ nHooks = 0
    /\ executor = [exists |-> FALSE, shutdown |-> FALSE, queue |-> <<>>, worker |-> "none"]
    /\ futures = <<>>
    /\ rendered = 0
    /\ figs = <<>>
    /\ cached = NoCache
    /\ raceSeen = FALSE
    /\ logged = FALSE
    /\ exitStatus = NoStatus
    /\ raisedClass = NoExc
    /\ tornDown = FALSE

MaxOf(S) == CHOOSE m \in S : \A k \in S : k <= m

(* x as sliced from the batch, before any prediction went into it. *)
BatchInput == [advanced_with |-> 0]

RolloutConfigs ==
    {[c EXCEPT !.longrollout = R] :
        c \in {d \in Configs : d.variant = "LongRolloutPlots" /\ d.rank = 0
                               /\ ~d.asynchronous /\ d.save_basedir
                               /\ d.plot_frequency = 1 /\ d.eval_frequency = 1},
        R \in (SUBSET (1..MaxHorizon)) \ {{}}}

InitRollout ==
    /\ config \in RolloutConfigs
    /\ \E m \in 1..MaxMultiStep, t \in 1..MaxTime :
          rolloutRun = [pc |-> "start", multi_step |-> m, time_len |-> t,
                        rollout_step |-> 0, x |-> BatchInput,
                        calls |-> <<>>, figures |-> <<>>]
    /\ transforms = NoTransforms
    /\ files = NoFiles
    /\ Quiet
    /\ parameter_names = <<>>
    /\ parameter_groups = <<>>
    /\ grouping = NoGrouping
    /\ loss = NoLoss
    /\ tensors = NoLoss
    /\ lossResult = NoCall

IsCheckpoint_zero_based(rollout_step) == rollout_step \in config.longrollout

(* if (rollout_step + 1) in self.rollout *)
IsCheckpoint(rollout_step) == (rollout_step + 1) \in config.longrollout

(* _plot up to "start rollout": the assertion on the batch length. *)
LongRolloutPlots_plot_start ==
    /\ rolloutRun.pc = "start"
    /\ rolloutRun' =
          [rolloutRun EXCEPT
              !.pc = IF rolloutRun.time_len >= MaxOf(config.longrollout) + rolloutRun.multi_step
                     THEN "loop" ELSE "AssertionError"]
    /\ UNCHANGED <<config, transforms, files, dispatchVars, groupVars, lossVars>>

(* One pass of "for rollout_step in range(max(self.rollout))": the model is *)
(* called on x, x is advanced with the prediction, and at a checkpoint a     *)
(* figure of the prediction against batch[:, multi_step + rollout_step] is   *)
(* handed to _output_figure.                                                 *)
LongRolloutPlots_plot_step ==
    /\ rolloutRun.pc = "loop"
    /\ rolloutRun.rollout_step < MaxOf(config.longrollout)
    /\ LET r == rolloutRun
           call == Len(r.calls) + 1
           fig == [rollout_step |-> r.rollout_step,
                   model_calls |-> call,
                   y_pred |-> call,
                   truth |-> r.multi_step + r.rollout_step]
       IN  rolloutRun' =
              [r EXCEPT !.calls = Append(@, r.x),
                        !.x = [advanced_with |-> call],
                        !.figures = IF IsCheckpoint(r.rollout_step) THEN Append(@, fig) ELSE @,
                        !.rollout_step = @ + 1]
    /\ UNCHANGED <<config, transforms, files, dispatchVars, groupVars, lossVars>>

(* The loop is exhausted and _plot returns. *)
LongRolloutPlots_plot_return ==
    /\ rolloutRun.pc = "loop"
    /\ rolloutRun.rollout_step = MaxOf(config.longrollout)
    /\ rolloutRun' = [rolloutRun EXCEPT !.pc = "returned"]
    /\ UNCHANGED <<config, transforms, files, dispatchVars, groupVars, lossVars>>

NextRollout ==
    \/ LongRolloutPlots_plot_start
    \/ LongRolloutPlots_plot_step
    \/ LongRolloutPlots_plot_return

SpecRollout == InitRollout /\ [][NextRollout]_vars

\* C15: LongRolloutPlots._plot calls the model exactly max(rollout) times,
\* every call after the first on the input advanced with the prediction of
\* the call before; it outputs exactly one figure per horizon h of the
\* rollout set, right after the h-th model call, showing that prediction
\* against the batch at time index multi_step + h - 1; and a batch shorter
\* than max(rollout) + multi_step fails the assertion before any model call,
\* with no figure output.
C15_RolloutLoop ==
    LET r == rolloutRun
        top == MaxOf(config.longrollout)
    IN  r.pc # "none" =>
          /\ \A k \in 1..Len(r.calls) : r.calls[k] = [advanced_with |-> k - 1]
          /\ \A i \in 1..Len(r.figures) :
                LET h == r.figures[i].y_pred IN
                /\ h \in config.longrollout
                /\ r.figures[i].model_calls = h
                /\ r.figures[i].truth = r.multi_step + h - 1
                /\ \A j \in 1..Len(r.figures) : r.figures[j].y_pred = h => j = i
          /\ r.pc = "returned" =>
                /\ Len(r.calls) = top
                /\ \A h \in config.longrollout : \E i \in 1..Len(r.figures) : r.figures[i].y_pred = h
                /\ Len(r.figures) = Cardinality(config.longrollout)
          /\ r.time_len < top + r.multi_step =>
                /\ r.pc \in {"start", "AssertionError"}
                /\ r.calls = <<>>
                /\ r.figures = <<>>
          /\ r.pc = "AssertionError" => r.time_len < top + r.multi_step

C15_Witness ==
    /\ rolloutRun.pc = "returned"
    /\ config.longrollout = {1, 3}
    /\ Len(rolloutRun.calls) = 3
    /\ Len(rolloutRun.figures) = 2
    /\ rolloutRun.multi_step = 2

---------------------------------------------------------------------------
(* The lazily cached transforms: "if self.post_processors is None: ..."     *)

MaxVersion == 2     \* the live model's transforms take the versions 1..MaxVersion
MaxRenders == 3     \* renders of one callback instance

None == 0

Fields == {"post_processors", "pre_processors", "latlons"}

(* The fields the variant's _plot copies from the live model. *)
CachedFields ==
    CASE config.variant \in {"LongRolloutPlots", "PlotSample"} -> {"post_processors", "latlons"}
      [] config.variant = "PlotAdditionalMetrics" -> Fields
      [] OTHER -> {}

CacheConfigs ==
    {c \in Configs : /\ ~c.asynchronous /\ c.save_basedir /\ ~c.wandb /\ ~c.mlflow
                     /\ c.plot_frequency = 1 /\ c.eval_frequency = 1}

InitCache ==
    /\ config \in CacheConfigs
    /\ transforms = [live |-> [f \in Fields |-> 1],
                     copy |-> [f \in Fields |-> None],
                     assignments |-> [f \in Fields |-> 0],
                     renders |-> 0]
    /\ rolloutRun = NoRun
    /\ files = NoFiles
    /\ Quiet
    /\ parameter_names = <<>>
    /\ parameter_groups = <<>>
    /\ grouping = NoGrouping
    /\ loss = NoLoss
    /\ tensors = NoLoss
    /\ lossResult = NoCall

(* Training goes on: pl_module.model's transforms, or pl_module.latlons_data, *)
(* are no longer what they were.                                              *)
change_model(f) ==
    /\ transforms.live[f] < MaxVersion
    /\ transforms' = [transforms EXCEPT !.live[f] = @ + 1]
    /\ UNCHANGED <<config, rolloutRun, files, dispatchVars, groupVars, lossVars>>

IsNone_always(f) == TRUE

(* if self.<f> is None *)
IsNone(f) == transforms.copy[f] = None

(* The head of the variant's _plot: each field it uses is copied from the   *)
(* live model if the callback holds None for it.                             *)
plot_cache ==
    /\ transforms.renders < MaxRenders
    /\ LET assigned == IF PlotRuns THEN {f \in CachedFields : IsNone(f)} ELSE {}
       IN  transforms' =
              [transforms EXCEPT
                  !.copy = [f \in Fields |-> IF f \in assigned THEN transforms.live[f] ELSE @[f]],
                  !.assignments = [f \in Fields |-> IF f \in assigned THEN @[f] + 1 ELSE @[f]],
                  !.renders = @ + 1]
    /\ UNCHANGED <<config, rolloutRun, files, dispatchVars, groupVars, lossVars>>

NextCache ==
    \/ \E f \in Fields : change_model(f)
    \/ plot_cache

SpecCache == InitCache /\ [][NextCache]_vars

\* C16: each of the cached post-processing transform, pre-processing
\* transform and lat/lon array of a callback instance is assigned at most
\* once: once a render has set it, no later render assigns it again,
\* whatever the renders and whatever becomes of the live model's transforms.
C16_CachedOnce ==
    /\ [](\A f \in Fields :
             /\ transforms.assignments[f] <= 1
             /\ (transforms.copy[f] = None) <=> (transforms.assignments[f] = 0))
    /\ [][\A f \in Fields :
             transforms.copy[f] # None => transforms'.copy[f] = transforms.copy[f]]_vars

C16_Witness ==
    /\ config.variant = "PlotAdditionalMetrics"
    /\ transforms.renders >= 2
    /\ \A f \in Fields :
          /\ transforms.assignments[f] = 1
          /\ transforms.copy[f] = 1
          /\ transforms.live[f] = 2

---------------------------------------------------------------------------
(* Properties of the group colours, checked under SpecGroup *)

GroupCount == Len(grouping.unique_group_list)

DistinctColors ==
    \A j, k \in 1..GroupCount :
        j # k => grouping.bar_color_per_group[j] # grouping.bar_color_per_group[k]

FromPalette ==
    \A k \in 1..GroupCount :
        /\ grouping.bar_color_per_group[k].cmap = (IF GroupCount <= 10 THEN "tab10" ELSE "tab20")
        /\ grouping.bar_color_per_group[k].index \in
              0..((IF GroupCount <= 10 THEN 10 ELSE 20) - 1)

\* C17 (as stated): with at most 20 groups every group has a colour
\* different from the colour of every other group, taken from the 10-colour
\* palette for at most 10 groups and from the 20-colour palette for 11 to 20
\* groups.
C17_AsStated ==
    (grouping.computed /\ GroupCount <= 20) => (DistinctColors /\ FromPalette)

\* C17 (amended): with at most 20 groups of which at least one has more than
\* one member, every group has a colour different from the colour of every
\* other group, taken from the 10-colour palette for at most 10 groups and
\* from the 20-colour palette for 11 to 20 groups; when every group has
\* exactly one member, every group is black.
C17_DistinctUnlessSingletons ==
    (grouping.computed /\ GroupCount <= 20) =>
        IF \E k \in 1..Len(parameter_names) : \E j \in 1..Len(parameter_names) :
              j # k /\ grouping.parameters_to_groups[j] = grouping.parameters_to_groups[k]
        THEN DistinctColors /\ FromPalette
        ELSE \A k \in 1..GroupCount : grouping.bar_color_per_group[k] = Black

C17_Witness ==
    /\ grouping.computed
    /\ GroupCount \in 11..20
    /\ grouping.bar_color_per_group[GroupCount] = [cmap |-> "tab20", index |-> 19]
    /\ DistinctColors

---------------------------------------------------------------------------
(* The plot files: save_path of _output_figure with the tags of the variants *)
(*                                                                           *)
(* A path is the sequence of its pieces: the literal pieces of the f-string *)
(* and, one by one, the digits of each formatted number.                     *)

DigitChars == <<"0", "1", "2", "3", "4", "5", "6", "7", "8", "9">>

RECURSIVE Decimal(_)
Decimal(n) ==
    IF n < 10 THEN <<DigitChars[n + 1]>>
    ELSE Append(Decimal(n \div 10), DigitChars[(n % 10) + 1])

RECURSIVE ZeroPad(_, _)
ZeroPad(digits, width) ==
    IF Len(digits) >= width THEN digits ELSE ZeroPad(<<"0">> \o digits, width)

(* f"{n:0<width>d}": n in decimal, filled with zeros up to the width. *)
Format(n, width) == ZeroPad(Decimal(n), width)

(* Path(self.save_basedir, "plots", f"{tag}_epoch{epoch:03d}.png") *)
save_path(tag, epoch) == <<"plots/">> \o tag \o <<"_epoch">> \o Format(epoch, 3) \o <<".png">>

(* The tags a render of the variant gives to _output_figure at a rollout step. *)
Tags(variant, rollout_step, batch_idx) ==
    CASE variant = "LongRolloutPlots" ->
            {<<"gnn_pred_val_sample_rstep">> \o Format(rollout_step, 3)
               \o <<"_batch">> \o Format(batch_idx, 4) \o <<"_rank0">>}
      [] variant = "PlotLoss" ->
            {<<"loss_rstep_rstep">> \o Format(rollout_step, 2) \o <<"_rank">> \o Format(0, 1)}
      [] variant = "PlotSample" ->
            {<<"gnn_pred_val_sample_rstep">> \o Format(rollout_step, 2)
               \o <<"_batch">> \o Format(batch_idx, 4) \o <<"_rank0">>}
      [] variant = "PlotAdditionalMetrics" ->
            {<<"gnn_pred_val_histo_rstep_">> \o Format(rollout_step, 2)
               \o <<"_batch">> \o Format(batch_idx, 4) \o <<"_rank0">>,
             <<"gnn_pred_val_spec_rstep_">> \o Format(rollout_step, 2)
               \o <<"_batch">> \o Format(batch_idx, 4) \o <<"_rank0">>}

(* The rollout steps at which a render of the variant outputs figures. *)
RolloutSteps ==
    IF config.variant = "LongRolloutPlots"
    THEN {h - 1 : h \in config.longrollout}
    ELSE 0..(config.rollout - 1)

PathConfigs ==
    {c \in Configs : /\ c.variant \in {"LongRolloutPlots", "PlotLoss", "PlotSample",
                                       "PlotAdditionalMetrics"}
                     /\ c.rank = 0 /\ ~c.asynchronous /\ c.save_basedir
                     /\ c.plot_frequency = 1 /\ c.eval_frequency = 1}

InitPaths ==
    /\ config \in PathConfigs
    /\ files = {}
    /\ rolloutRun = NoRun
    /\ transforms = NoTransforms
    /\ Quiet
    /\ parameter_names = <<>>
    /\ parameter_groups = <<>>
    /\ grouping = NoGrouping
    /\ loss = NoLoss
    /\ tensors = NoLoss
    /\ lossResult = NoCall

RenderedBatches == {<<w.batch_idx, w.epoch>> : w \in files}

(* One render of the variant for batch batch_idx of epoch `epoch`: every    *)
(* figure it outputs is saved by fig.savefig(save_path).                     *)
plot_files(batch_idx, epoch) ==
    /\ <<batch_idx, epoch>> \notin RenderedBatches
    /\ Cardinality(RenderedBatches) < MaxRenders
    /\ files' = files \cup
          {[path |-> save_path(tag, epoch), batch_idx |-> batch_idx,
            rollout_step |-> r, epoch |-> epoch] :
              <<r, tag>> \in UNION {{<<r, tag>> : tag \in Tags(config.variant, r, batch_idx)} :
                                      r \in RolloutSteps}}
    /\ UNCHANGED <<config, rolloutRun, transforms, dispatchVars, groupVars, lossVars>>

NextPaths == \E b \in Batches, e \in Epochs : plot_files(b, e)

SpecPaths == InitPaths /\ [][NextPaths]_vars

\* C18: within one epoch, two figures output by the callback for different
\* (batch index, rollout step) pairs are saved to different file paths, for
\* PlotLoss, PlotSample, PlotAdditionalMetrics and LongRolloutPlots.
C18_DistinctPaths ==
    \A v, w \in files :
        (v.epoch = w.epoch /\ <<v.batch_idx, v.rollout_step>> # <<w.batch_idx, w.rollout_step>>)
            => v.path # w.path

====
